---------------------------- MODULE Spec2Model ----------------------------
(***************************************************************************)
(* Model of the word layout engine of scrabble_layout.py: the class        *)
(* ScrabbleLayouter (constructor, validator _can_place_word_at, commit     *)
(* _place_word_on_board, orchestrator layout_words) and the wrapper        *)
(* create_scrabble_layout.                                                 *)
(*                                                                         *)
(* A Python str that is indexed (a word) is a sequence of one-character    *)
(* strings; a str that is only compared or measured (a cell, the empty     *)
(* marker) is a TLA+ string.  Rows, columns and letter indices are 0-based *)
(* as in the code; word[i] of the code is word[i + 1] here.                *)
(*                                                                         *)
(* The input words are written with the letters of InputChars, which never *)
(* include the empty marker ".".  Spec explores the inputs up to the       *)
(* bounds, SpecWide the inputs one step beyond each bound, FairSpec is     *)
(* Spec with the progress of sequential code.  SpecScenario runs the       *)
(* layout on the three-letter words of the worked examples, SpecValidator  *)
(* calls _can_place_word_at directly on a layouter that a layout call has  *)
(* left.                                                                   *)
(***************************************************************************)
EXTENDS Integers, Sequences, FiniteSets, TLC

VARIABLES
    pc,                 \* position in create_scrabble_layout / layout_words
    board_size,         \* argument board_size, then self.board_size
    empty_char,         \* argument empty_char, then self.empty_char
    board,              \* self.board: row |-> column |-> cell
    placed_words_info,  \* self.placed_words_info, the placement log
    words,              \* argument of the outermost layout_words call
    current_words,      \* current_words of the innermost layout_words call
    idx,                \* position of the for loop over current_words[1:]
    reported,           \* words named by the "Could not ..." prints, in order
    processed,          \* words handed to a placement search, in order
    depth,              \* number of recursive layout_words calls made
    result,             \* value returned to the caller
    call                \* a direct call of _can_place_word_at: arguments, result

vars == << pc, board_size, empty_char, board, placed_words_info, words,
           current_words, idx, reported, processed, depth, result, call >>

----------------------------------------------------------------------------
(* Bounds of the model *)

MaxSize == 3
MaxLen == 2
MaxWords == 3

\* characters the input words are written in: one lower-case, one upper-case
InputChars == {"a", "B"}

\* values tried for empty_char: of length 0, 1 and 2
EmptyChars == {"", ".", ".."}

SeqsUpTo(S, n) == UNION {[1..k -> S] : k \in 0..n}

\* values tried for board_size: the non-positive ones are rejected
BoardSizes == {-1, 0} \cup (1..MaxSize)

InputWords == SeqsUpTo(InputChars, MaxLen)

WordLists == SeqsUpTo(InputWords, MaxWords)

\* the wider inputs of SpecWide: one more row and column, letter and word
WideBoardSizes == {-1, 0} \cup (1..(MaxSize + 1))

WideInputWords == SeqsUpTo(InputChars, MaxLen + 1)

WideWordLists == SeqsUpTo(WideInputWords, MaxWords + 1)

----------------------------------------------------------------------------
(* str.upper() on one character *)
UpperChar(ch) ==
    CASE ch = "a" -> "A"
      [] ch = "b" -> "B"
      [] ch = "c" -> "C"
      [] ch = "r" -> "R"
      [] ch = "t" -> "T"
      [] OTHER -> ch

Upper(word) == [i \in 1..Len(word) |-> UpperChar(word[i])]

(* Normalize that upper-cases and keeps the empty strings *)
NormalizeKeepEmpty(ws) == [i \in 1..Len(ws) |-> Upper(ws[i])]

RECURSIVE Normalize(_)
(* [word.upper() for word in words if word] *)
Normalize(ws) ==
    IF ws = << >> THEN << >>
    ELSE IF Head(ws) = << >> THEN Normalize(Tail(ws))
    ELSE << Upper(Head(ws)) >> \o Normalize(Tail(ws))

(* the grid built by the constructor (and by the except branch) *)
EmptyBoard(n, e) == [r \in 0..(n - 1) |-> [c \in 0..(n - 1) |-> e]]

IsWithinBounds(n, r, c) == 0 <= r /\ r < n /\ 0 <= c /\ c < n

(* cell of letter i of a word starting at (r0, c0) in direction d *)
CellAt(r0, c0, d, i) == IF d = "H" THEN << r0, c0 + i >> ELSE << r0 + i, c0 >>

(* PerpendicularOccupied with the second neighbour forgotten *)
PerpendicularOccupiedOneSide(b, n, e, r, c, d) ==
    IF d = "H"
    THEN r > 0 /\ b[r - 1][c] /= e
    ELSE c > 0 /\ b[r][c - 1] /= e

(* the adjacency test of an empty cell: an occupied perpendicular neighbour *)
PerpendicularOccupied(b, n, e, r, c, d) ==
    IF d = "H"
    THEN \/ (r > 0 /\ b[r - 1][c] /= e)
         \/ (r < n - 1 /\ b[r + 1][c] /= e)
    ELSE \/ (c > 0 /\ b[r][c - 1] /= e)
         \/ (c < n - 1 /\ b[r][c + 1] /= e)

RECURSIVE WalkNoConflict(_, _, _, _, _, _, _, _, _, _)
(* Walk with the letter comparison left out: any occupied cell connects *)
WalkNoConflict(b, n, e, word, r0, c0, d, first, i, made) ==
    IF i = Len(word)
    THEN IF first THEN << TRUE, FALSE >>
         ELSE IF ~made THEN << FALSE, FALSE >>
         ELSE << TRUE, made >>
    ELSE LET rc == CellAt(r0, c0, d, i)
             board_char == b[rc[1]][rc[2]]
         IN  IF board_char /= e
             THEN WalkNoConflict(b, n, e, word, r0, c0, d, first, i + 1, TRUE)
             ELSE IF ~first /\ PerpendicularOccupied(b, n, e, rc[1], rc[2], d)
                  THEN << FALSE, FALSE >>
                  ELSE WalkNoConflict(b, n, e, word, r0, c0, d, first, i + 1, made)

RECURSIVE WalkNoAdjacency(_, _, _, _, _, _, _, _, _, _)
(* Walk with the adjacency rule of empty cells left out *)
WalkNoAdjacency(b, n, e, word, r0, c0, d, first, i, made) ==
    IF i = Len(word)
    THEN IF first THEN << TRUE, FALSE >>
         ELSE IF ~made THEN << FALSE, FALSE >>
         ELSE << TRUE, made >>
    ELSE LET rc == CellAt(r0, c0, d, i)
             board_char == b[rc[1]][rc[2]]
         IN  IF board_char /= e
             THEN IF board_char = word[i + 1]
                  THEN WalkNoAdjacency(b, n, e, word, r0, c0, d, first, i + 1, TRUE)
                  ELSE << FALSE, FALSE >>
             ELSE WalkNoAdjacency(b, n, e, word, r0, c0, d, first, i + 1, made)

RECURSIVE Walk(_, _, _, _, _, _, _, _, _, _)
(* the for loop of _can_place_word_at from letter i on, and its epilogue *)
Walk(b, n, e, word, r0, c0, d, first, i, made) ==
    IF i = Len(word)
    THEN IF first THEN << TRUE, FALSE >>
         ELSE IF ~made THEN << FALSE, FALSE >>
         ELSE << TRUE, made >>
    ELSE LET rc == CellAt(r0, c0, d, i)
             board_char == b[rc[1]][rc[2]]
         IN  IF board_char /= e
             THEN IF board_char = word[i + 1]
                  THEN Walk(b, n, e, word, r0, c0, d, first, i + 1, TRUE)
                  ELSE << FALSE, FALSE >>
             ELSE IF ~first /\ PerpendicularOccupied(b, n, e, rc[1], rc[2], d)
                  THEN << FALSE, FALSE >>
                  ELSE Walk(b, n, e, word, r0, c0, d, first, i + 1, made)

(* the neighbours the adjacency test of an empty cell reads: the second one
   only when the first is not occupied *)
PerpendicularRead(b, n, e, r, c, d) ==
    IF d = "H"
    THEN (IF r > 0 THEN {<< r - 1, c >>} ELSE {})
         \cup (IF r < n - 1 /\ ~(r > 0 /\ b[r - 1][c] /= e)
               THEN {<< r + 1, c >>} ELSE {})
    ELSE (IF c > 0 THEN {<< r, c - 1 >>} ELSE {})
         \cup (IF c < n - 1 /\ ~(c > 0 /\ b[r][c - 1] /= e)
               THEN {<< r, c + 1 >>} ELSE {})

RECURSIVE WalkRead(_, _, _, _, _, _, _, _, _)
(* the board cells the for loop of _can_place_word_at reads from letter i on *)
WalkRead(b, n, e, word, r0, c0, d, first, i) ==
    IF i = Len(word) THEN {}
    ELSE LET rc == CellAt(r0, c0, d, i)
             board_char == b[rc[1]][rc[2]]
         IN  {rc} \cup
             (IF board_char /= e
              THEN IF board_char = word[i + 1]
                   THEN WalkRead(b, n, e, word, r0, c0, d, first, i + 1)
                   ELSE {}
              ELSE IF first
                   THEN WalkRead(b, n, e, word, r0, c0, d, first, i + 1)
                   ELSE PerpendicularRead(b, n, e, rc[1], rc[2], d) \cup
                        (IF PerpendicularOccupied(b, n, e, rc[1], rc[2], d)
                         THEN {}
                         ELSE WalkRead(b, n, e, word, r0, c0, d, first, i + 1)))

(* the board cells that one call of _can_place_word_at reads *)
CellsRead(b, n, e, word, r0, c0, d, first) ==
    IF word = << >> THEN {}
    ELSE LET last == CellAt(r0, c0, d, Len(word) - 1)
         IN  IF ~(IsWithinBounds(n, r0, c0) /\ IsWithinBounds(n, last[1], last[2]))
             THEN {}
             ELSE WalkRead(b, n, e, word, r0, c0, d, first, 0)

(* CanPlaceWordAt that moves a start left of or above the grid to the edge
   instead of rejecting it *)
CanPlaceWordAtClipped(b, n, e, word, r0, c0, d, first) ==
    IF word = << >> THEN << FALSE, FALSE >>
    ELSE LET r1 == IF r0 < 0 THEN 0 ELSE r0
             c1 == IF c0 < 0 THEN 0 ELSE c0
             last == CellAt(r1, c1, d, Len(word) - 1)
         IN  IF ~(IsWithinBounds(n, r1, c1) /\ IsWithinBounds(n, last[1], last[2]))
             THEN << FALSE, FALSE >>
             ELSE Walk(b, n, e, word, r1, c1, d, first, 0, FALSE)

(* CanPlaceWordAt with the bounds test of the last cell left out: a first
   word that sticks out of the grid is accepted *)
CanPlaceWordAtStartOnly(b, n, e, word, r0, c0, d, first) ==
    IF word = << >> THEN << FALSE, FALSE >>
    ELSE LET last == CellAt(r0, c0, d, Len(word) - 1)
         IN  IF ~IsWithinBounds(n, r0, c0)
             THEN << FALSE, FALSE >>
             ELSE IF ~IsWithinBounds(n, last[1], last[2])
             THEN << first, FALSE >>
             ELSE Walk(b, n, e, word, r0, c0, d, first, 0, FALSE)

(* _can_place_word_at: << can_place, makes_connection >> *)
CanPlaceWordAt(b, n, e, word, r0, c0, d, first) ==
    IF word = << >> THEN << FALSE, FALSE >>
    ELSE LET last == CellAt(r0, c0, d, Len(word) - 1)
         IN  IF ~(IsWithinBounds(n, r0, c0) /\ IsWithinBounds(n, last[1], last[2]))
             THEN << FALSE, FALSE >>
             ELSE Walk(b, n, e, word, r0, c0, d, first, 0, FALSE)

(* the cells written by _place_word_on_board *)
IsWritten(word, r0, c0, d, r, c) ==
    IF d = "H"
    THEN r = r0 /\ c0 <= c /\ c < c0 + Len(word)
    ELSE c = c0 /\ r0 <= r /\ r < r0 + Len(word)

LetterWritten(word, r0, c0, d, r, c) ==
    word[(IF d = "H" THEN c - c0 ELSE r - r0) + 1]

(* PlaceWordOnBoard with the start row and the start column exchanged *)
PlaceWordOnBoardSwapped(b, n, word, r0, c0, d) ==
    [r \in 0..(n - 1) |-> [c \in 0..(n - 1) |->
        IF IsWritten(word, c0, r0, d, r, c)
        THEN LetterWritten(word, c0, r0, d, r, c)
        ELSE b[r][c]]]

(* PlaceWordOnBoard with the vertical branch left out: every word is written
   along its row *)
PlaceWordOnBoardRowOnly(b, n, word, r0, c0, d) ==
    [r \in 0..(n - 1) |-> [c \in 0..(n - 1) |->
        IF IsWritten(word, r0, c0, "H", r, c)
        THEN LetterWritten(word, r0, c0, "H", r, c)
        ELSE b[r][c]]]

(* _place_word_on_board: the grid after the writes *)
PlaceWordOnBoard(b, n, word, r0, c0, d) ==
    [r \in 0..(n - 1) |-> [c \in 0..(n - 1) |->
        IF IsWritten(word, r0, c0, d, r, c)
        THEN LetterWritten(word, r0, c0, d, r, c)
        ELSE b[r][c]]]

(* PlacedWord with row and column exchanged *)
PlacedWordSwapped(word, r0, c0, d) ==
    [word |-> word, row |-> c0, col |-> r0, direction |-> d]

(* _place_word_on_board: the entry appended to the log *)
PlacedWord(word, r0, c0, d) == [word |-> word, row |-> r0, col |-> c0, direction |-> d]

NoPlacement == [found |-> FALSE]

(* SeedAnchors with the two corner anchors tried before the centred ones *)
SeedAnchorsCornerFirst(n, word) ==
    << << 0, 0, "H" >>,
       << 0, 0, "V" >>,
       << n \div 2, (n - Len(word)) \div 2, "H" >>,
       << (n - Len(word)) \div 2, n \div 2, "V" >> >>

(* SeedAnchors with the centred word begun at the centre cell *)
SeedAnchorsStartAtCentre(n, word) ==
    << << n \div 2, n \div 2, "H" >>,
       << n \div 2, n \div 2, "V" >>,
       << 0, 0, "H" >>,
       << 0, 0, "V" >> >>

(* the four anchors of the first word, in the order they are tried *)
SeedAnchors(n, word) ==
    << << n \div 2, (n - Len(word)) \div 2, "H" >>,
       << (n - Len(word)) \div 2, n \div 2, "V" >>,
       << 0, 0, "H" >>,
       << 0, 0, "V" >> >>

RECURSIVE SeedFrom(_, _, _, _, _)
(* the first anchor from number k on that the validator accepts *)
SeedFrom(b, n, e, word, k) ==
    IF k > 4 THEN NoPlacement
    ELSE LET a == SeedAnchors(n, word)[k]
         IN  IF CanPlaceWordAt(b, n, e, word, a[1], a[2], a[3], TRUE)[1]
             THEN [found |-> TRUE, row |-> a[1], col |-> a[2], direction |-> a[3],
                   anchor |-> k]
             ELSE SeedFrom(b, n, e, word, k + 1)

(* SeedSearch that leaves out the two centred anchors *)
SeedSearchCornersOnly(b, n, e, word) == SeedFrom(b, n, e, word, 3)

SeedSearch(b, n, e, word) == SeedFrom(b, n, e, word, 1)

(* the candidate at position k of the nested loops: letter index, then board
   row, then board column, then horizontal before vertical *)
ScanLetter(n, k) == k \div (2 * n * n)

ScanRow(n, k) == (k \div (2 * n)) % n

ScanCol(n, k) == (k \div 2) % n

(* ScanDirection with the vertical attempt made first *)
ScanDirectionVerticalFirst(k) == IF k % 2 = 0 THEN "V" ELSE "H"

ScanDirection(k) == IF k % 2 = 0 THEN "H" ELSE "V"

(* start_r_h, start_c_h and start_r_v, start_c_v *)
StartRow(i, r, d) == IF d = "H" THEN r ELSE r - i

StartCol(i, c, d) == IF d = "H" THEN c - i ELSE c

(* IsCommitted that asks only whether the word fits the grid at the anchor *)
IsCommittedAnchorOnly(b, n, e, word, i, r, c, d) ==
    /\ b[r][c] = word[i + 1]
    /\ IsWithinBounds(n, StartRow(i, r, d), StartCol(i, c, d))
    /\ IsWithinBounds(n, CellAt(StartRow(i, r, d), StartCol(i, c, d), d, Len(word) - 1)[1],
                         CellAt(StartRow(i, r, d), StartCol(i, c, d), d, Len(word) - 1)[2])

(* the test made at board cell (r, c) for letter i and direction d: the cell
   holds the letter and the validator accepts the word with a connection *)
IsCommitted(b, n, e, word, i, r, c, d) ==
    /\ b[r][c] = word[i + 1]
    /\ CanPlaceWordAt(b, n, e, word, StartRow(i, r, d), StartCol(i, c, d), d, FALSE)
           = << TRUE, TRUE >>

(* the placement committed at loop position k *)
PlacementAt(n, k) ==
    [found |-> TRUE,
     row |-> StartRow(ScanLetter(n, k), ScanRow(n, k), ScanDirection(k)),
     col |-> StartCol(ScanLetter(n, k), ScanCol(n, k), ScanDirection(k)),
     direction |-> ScanDirection(k),
     letter |-> ScanLetter(n, k),
     at |-> << ScanRow(n, k), ScanCol(n, k) >>]

(* the loops stop at the first position of S, the positions that commit *)
FirstOf(n, S) ==
    IF S = {} THEN NoPlacement
    ELSE PlacementAt(n, CHOOSE k \in S : \A j \in S : k <= j)

(* ScanFrom that tries only the first letter of the word as the hook *)
ScanFromFirstLetterOnly(b, n, e, word, k0) ==
    FirstOf(n, {k \in k0..(n * n * 2 - 1) :
                   IsCommitted(b, n, e, word, ScanLetter(n, k), ScanRow(n, k),
                               ScanCol(n, k), ScanDirection(k))})

(* the nested loops over letter index, board row, board column and the two
   directions, from position k0 of that order on: the first candidate that is
   accepted with a connection *)
ScanFrom(b, n, e, word, k0) ==
    FirstOf(n, {k \in k0..(Len(word) * n * n * 2 - 1) :
                   IsCommitted(b, n, e, word, ScanLetter(n, k), ScanRow(n, k),
                               ScanCol(n, k), ScanDirection(k))})

PlacementSearch(b, n, e, word) == ScanFrom(b, n, e, word, 0)

----------------------------------------------------------------------------
(* layout_words as a function of its argument, for a fresh layouter *)

RECURSIVE PlaceRemaining(_, _, _, _, _, _)

(* the end of one iteration of the loop, s being what the search returned *)
PlaceFound(b, n, e, log, cw, k, s) ==
    IF s.found
    THEN PlaceRemaining(PlaceWordOnBoard(b, n, cw[k], s.row, s.col, s.direction),
                        n, e,
                        Append(log, PlacedWord(cw[k], s.row, s.col, s.direction)),
                        cw, k + 1)
    ELSE PlaceRemaining(b, n, e, log, cw, k + 1)

(* the loop over current_words[1:] from position k on *)
PlaceRemaining(b, n, e, log, cw, k) ==
    IF k > Len(cw) THEN [board |-> b, log |-> log]
    ELSE PlaceFound(b, n, e, log, cw, k, PlacementSearch(b, n, e, cw[k]))

RECURSIVE LayoutNormalized(_, _, _)

(* what follows the search for the first word, s being what it returned *)
SeedFound(n, e, cw, s) ==
    IF s.found
    THEN PlaceRemaining(PlaceWordOnBoard(EmptyBoard(n, e), n, cw[1],
                                         s.row, s.col, s.direction),
                        n, e,
                        << PlacedWord(cw[1], s.row, s.col, s.direction) >>,
                        cw, 2)
    ELSE IF Len(cw) > 1
         THEN LayoutNormalized(n, e, Normalize(Tail(cw)))
         ELSE [board |-> EmptyBoard(n, e), log |-> << >>]

(* layout_words from the placement of the first word of cw on *)
LayoutNormalized(n, e, cw) ==
    IF cw = << >>
    THEN [board |-> EmptyBoard(n, e), log |-> << >>]
    ELSE SeedFound(n, e, cw, SeedSearch(EmptyBoard(n, e), n, e, cw[1]))

(* the returned grid and the placement log of layout_words(ws) *)
LayoutResult(n, e, ws) == LayoutNormalized(n, e, Normalize(ws))

----------------------------------------------------------------------------
(* no direct call of the validator has been made *)
NoCall ==
    [word |-> << >>, row |-> 0, col |-> 0, direction |-> "H", first |-> FALSE,
     returned |-> << >>, read |-> {}]

Init ==
    /\ pc = "init"
    /\ board_size = 0
    /\ empty_char = ""
    /\ board = << >>
    /\ placed_words_info = << >>
    /\ words = << >>
    /\ current_words = << >>
    /\ idx = 0
    /\ reported = << >>
    /\ processed = << >>
    /\ depth = 0
    /\ result = << >>
    /\ call = NoCall

(* Construct with the test of the marker left out *)
ConstructUnchecked(size, marker) ==
    /\ pc = "init"
    /\ board_size' = size
    /\ empty_char' = marker
    /\ IF size <= 0
       THEN /\ pc' = "except"
            /\ UNCHANGED board
       ELSE /\ pc' = "layout"
            /\ board' = EmptyBoard(size, marker)
    /\ UNCHANGED << call, placed_words_info, words, current_words, idx, reported,
                    processed, depth, result >>

(* ScrabbleLayouter(board_size, empty_char) inside the try block *)
Construct(size, marker) ==
    /\ pc = "init"
    /\ board_size' = size
    /\ empty_char' = marker
    /\ IF size <= 0 \/ Len(marker) /= 1
       THEN /\ pc' = "except"
            /\ UNCHANGED board
       ELSE /\ pc' = "layout"
            /\ board' = EmptyBoard(size, marker)
    /\ UNCHANGED << call, placed_words_info, words, current_words, idx, reported,
                    processed, depth, result >>

(* except ValueError: the grid built from the arguments is returned *)
ExceptValueError ==
    /\ pc = "except"
    /\ result' = EmptyBoard(board_size, empty_char)
    /\ pc' = "returned"
    /\ UNCHANGED << call, board_size, empty_char, board, placed_words_info, words,
                    current_words, idx, reported, processed, depth >>

(* layout_words(words) up to the placement of the first word *)
LayoutWords(ws) ==
    /\ pc = "layout"
    /\ words' = ws
    /\ current_words' = Normalize(ws)
    /\ IF ws = << >> \/ current_words' = << >>
       THEN /\ pc' = "returned"
            /\ result' = board
       ELSE /\ pc' = "seeding"
            /\ UNCHANGED result
    /\ UNCHANGED << call, board_size, empty_char, board, placed_words_info, idx,
                    reported, processed, depth >>

(* SeedFirstWord that returns the board when the first word cannot be placed,
   whatever is left in the queue *)
SeedFirstWordNoRestart ==
    /\ pc = "seeding"
    /\ \E first_word \in {current_words[1]} :
       \E s \in {SeedSearch(board, board_size, empty_char, first_word)} :
           /\ processed' = Append(processed, first_word)
           /\ IF s.found
              THEN /\ board' = PlaceWordOnBoard(board, board_size, first_word,
                                                s.row, s.col, s.direction)
                   /\ placed_words_info' =
                          Append(placed_words_info,
                                 PlacedWord(first_word, s.row, s.col, s.direction))
                   /\ pc' = "placing"
                   /\ idx' = 2
                   /\ UNCHANGED << current_words, reported, depth, result >>
              ELSE /\ reported' = Append(reported, first_word)
                   /\ pc' = "returned"
                   /\ result' = board
                   /\ UNCHANGED << board, placed_words_info, current_words, idx,
                                   depth >>
    /\ UNCHANGED << call, board_size, empty_char, words >>

(* the search for the first word and what follows a failure *)
SeedFirstWord ==
    /\ pc = "seeding"
    /\ \E first_word \in {current_words[1]} :
       \E s \in {SeedSearch(board, board_size, empty_char, first_word)} :
           /\ processed' = Append(processed, first_word)
           /\ IF s.found
              THEN /\ board' = PlaceWordOnBoard(board, board_size, first_word,
                                                s.row, s.col, s.direction)
                   /\ placed_words_info' =
                          Append(placed_words_info,
                                 PlacedWord(first_word, s.row, s.col, s.direction))
                   /\ pc' = "placing"
                   /\ idx' = 2
                   /\ UNCHANGED << current_words, reported, depth, result >>
              ELSE /\ reported' = Append(reported, first_word)
                   /\ IF Len(current_words) > 1
                      THEN /\ board' = EmptyBoard(board_size, empty_char)
                           /\ placed_words_info' = << >>
                           /\ current_words' = Normalize(Tail(current_words))
                           /\ depth' = depth + 1
                           /\ pc' = "seeding"
                           /\ UNCHANGED << idx, result >>
                      ELSE /\ pc' = "returned"
                           /\ result' = board
                           /\ UNCHANGED << board, placed_words_info,
                                           current_words, idx, depth >>
    /\ UNCHANGED << call, board_size, empty_char, words >>

(* PlaceNextWord that leaves the loop at the first word it cannot place *)
PlaceNextWordStopOnFailure ==
    /\ pc = "placing"
    /\ idx <= Len(current_words)
    /\ \E word_to_place \in {current_words[idx]} :
       \E s \in {PlacementSearch(board, board_size, empty_char, word_to_place)} :
           /\ processed' = Append(processed, word_to_place)
           /\ IF s.found
              THEN /\ board' = PlaceWordOnBoard(board, board_size, word_to_place,
                                                s.row, s.col, s.direction)
                   /\ placed_words_info' =
                          Append(placed_words_info,
                                 PlacedWord(word_to_place, s.row, s.col, s.direction))
                   /\ idx' = idx + 1
                   /\ UNCHANGED reported
              ELSE /\ reported' = Append(reported, word_to_place)
                   /\ idx' = Len(current_words) + 1
                   /\ UNCHANGED << board, placed_words_info >>
    /\ UNCHANGED << call, pc, board_size, empty_char, words, current_words, depth,
                    result >>

(* one iteration of the loop over current_words[1:] *)
PlaceNextWord ==
    /\ pc = "placing"
    /\ idx <= Len(current_words)
    /\ \E word_to_place \in {current_words[idx]} :
       \E s \in {PlacementSearch(board, board_size, empty_char, word_to_place)} :
           /\ processed' = Append(processed, word_to_place)
           /\ IF s.found
              THEN /\ board' = PlaceWordOnBoard(board, board_size, word_to_place,
                                                s.row, s.col, s.direction)
                   /\ placed_words_info' =
                          Append(placed_words_info,
                                 PlacedWord(word_to_place, s.row, s.col, s.direction))
                   /\ UNCHANGED reported
              ELSE /\ reported' = Append(reported, word_to_place)
                   /\ UNCHANGED << board, placed_words_info >>
    /\ idx' = idx + 1
    /\ UNCHANGED << call, pc, board_size, empty_char, words, current_words, depth,
                    result >>

(* return self.board after the loop *)
ReturnBoard ==
    /\ pc = "placing"
    /\ idx > Len(current_words)
    /\ result' = board
    /\ pc' = "returned"
    /\ UNCHANGED << call, board_size, empty_char, board, placed_words_info, words,
                    current_words, idx, reported, processed, depth >>

Next ==
    \/ (pc = "init" /\ \E size \in BoardSizes, marker \in EmptyChars :
                           Construct(size, marker))
    \/ ExceptValueError
    \/ (pc = "layout" /\ \E ws \in WordLists : LayoutWords(ws))
    \/ SeedFirstWord
    \/ PlaceNextWord
    \/ ReturnBoard

Spec == Init /\ [][Next]_vars

(* the layout call is sequential code that runs to its return *)
FairSpec == Spec /\ WF_vars(Next)

NextWide ==
    \/ (pc = "init" /\ \E size \in WideBoardSizes, marker \in EmptyChars :
                           Construct(size, marker))
    \/ ExceptValueError
    \/ (pc = "layout" /\ \E ws \in WideWordLists : LayoutWords(ws))
    \/ SeedFirstWord
    \/ PlaceNextWord
    \/ ReturnBoard

SpecWide == Init /\ [][NextWide]_vars

(* _can_place_word_at called on a layouter that a layout call has left: the
   board and the log are those that layout_words leaves for lists of up to
   two words, the start cells include those one step outside the grid *)
ValidatorWords == {Upper(w) : w \in InputWords}

ValidatorLayouts(n) ==
    {LayoutResult(n, ".", ws) : ws \in SeqsUpTo(InputWords, 2)}

InitValidator ==
    /\ pc = "validator"
    /\ board_size \in 1..MaxSize
    /\ empty_char = "."
    /\ \E f \in ValidatorLayouts(board_size) :
           board = f.board /\ placed_words_info = f.log
    /\ words = << >>
    /\ current_words = << >>
    /\ idx = 0
    /\ reported = << >>
    /\ processed = << >>
    /\ depth = 0
    /\ result = << >>
    /\ call \in [word : ValidatorWords, row : (-1)..board_size, col : (-1)..board_size,
                  direction : {"H", "V"}, first : BOOLEAN, returned : {<< >>},
                  read : {{}}]

(* self._can_place_word_at(word, r_start, c_start, direction, is_first_word_on_board) *)
CallCanPlaceWordAt ==
    /\ pc = "validator"
    /\ call' = [call EXCEPT
                    !.returned =
                        CanPlaceWordAt(board, board_size, empty_char, call.word,
                                       call.row, call.col, call.direction, call.first),
                    !.read =
                        CellsRead(board, board_size, empty_char, call.word,
                                  call.row, call.col, call.direction, call.first)]
    /\ pc' = "validated"
    /\ UNCHANGED << board_size, empty_char, board, placed_words_info, words,
                    current_words, idx, reported, processed, depth, result >>

SpecValidator == InitValidator /\ [][CallCanPlaceWordAt]_vars

(* the inputs of the worked examples: words of three letters in both cases on
   boards of up to MaxSize + 2 rows *)
CAT == << "C", "A", "T" >>

CAR == << "C", "A", "R" >>

ScenarioWords == {CAT, CAR, << "c", "a", "r" >>, << "a" >>, << >>}

ScenarioWordLists == SeqsUpTo(ScenarioWords, MaxWords)

ScenarioBoardSizes == {0} \cup (1..(MaxSize + 2))

NextScenario ==
    \/ (pc = "init" /\ \E size \in ScenarioBoardSizes, marker \in EmptyChars :
                           Construct(size, marker))
    \/ ExceptValueError
    \/ (pc = "layout" /\ \E ws \in ScenarioWordLists : LayoutWords(ws))
    \/ SeedFirstWord
    \/ PlaceNextWord
    \/ ReturnBoard

SpecScenario == Init /\ [][NextScenario]_vars

----------------------------------------------------------------------------
(* Vocabulary of the properties *)

(* a board exists: the constructor has accepted the configuration *)
Constructed == pc \in {"layout", "seeding", "placing"} \/ (pc = "returned" /\ board /= << >>)

ValidConfig == board_size > 0 /\ Len(empty_char) = 1

Cells == (0..(board_size - 1)) \X (0..(board_size - 1))

Span(p) == {CellAt(p.row, p.col, p.direction, i) : i \in 0..(Len(p.word) - 1)}

CharAt(p, x) == p.word[(IF p.direction = "H" THEN x[2] - p.col ELSE x[1] - p.row) + 1]

Entries == DOMAIN placed_words_info

Occupied(b, x) == b[x[1]][x[2]] /= empty_char

(* the neighbours of x inside the grid, across direction d and along it *)
PerpendicularNeighbours(x, d) ==
    (IF d = "H" THEN {<< x[1] - 1, x[2] >>, << x[1] + 1, x[2] >>}
                ELSE {<< x[1], x[2] - 1 >>, << x[1], x[2] + 1 >>}) \cap Cells

OrthogonalNeighbours(x) ==
    {<< x[1] - 1, x[2] >>, << x[1] + 1, x[2] >>,
     << x[1], x[2] - 1 >>, << x[1], x[2] + 1 >>} \cap Cells

(* C1: any two entries of the placement log whose spans share a cell have the
   same character at that cell *)
C1_ConflictFree ==
    \A j \in Entries : \A k \in Entries :
        \A x \in Span(placed_words_info[j]) \cap Span(placed_words_info[k]) :
            CharAt(placed_words_info[j], x) = CharAt(placed_words_info[k], x)

(* two logged words with different text cross at a cell *)
C1_Witness ==
    \E j \in Entries : \E k \in Entries :
        /\ j < k
        /\ placed_words_info[j].word /= placed_words_info[k].word
        /\ Span(placed_words_info[j]) \cap Span(placed_words_info[k]) /= {}

(* C2: every non-empty cell of the board, and of the returned grid, holds the
   character that some entry of the placement log puts there *)
C2_GridLogConsistent ==
    Constructed =>
        /\ \A x \in Cells :
              Occupied(board, x) =>
                  \E k \in Entries :
                      /\ x \in Span(placed_words_info[k])
                      /\ CharAt(placed_words_info[k], x) = board[x[1]][x[2]]
        /\ pc = "returned" => result = board

(* a returned grid with letters of two logged words *)
C2_Witness ==
    /\ pc = "returned"
    /\ Len(placed_words_info) >= 2
    /\ \E x \in Cells : \E y \in Cells :
          Occupied(result, x) /\ Occupied(result, y) /\ result[x[1]][x[2]] /= result[y[1]][y[2]]

(* C3: every entry of the placement log but the first shares a cell with an
   entry logged before it *)
C3_Connectivity ==
    \A k \in Entries :
        k > 1 => \E j \in 1..(k - 1) :
                     Span(placed_words_info[k]) \cap Span(placed_words_info[j]) /= {}

(* a third word has been logged *)
C3_Witness == Len(placed_words_info) >= 3

(* cells of entry k that no entry logged before it covers *)
NewCells(k) ==
    Span(placed_words_info[k]) \ UNION {Span(placed_words_info[j]) : j \in 1..(k - 1)}

Committed == placed_words_info'[Len(placed_words_info')]

IsCommitOfLaterWord ==
    pc = "placing" /\ Len(placed_words_info') = Len(placed_words_info) + 1

IsGridOf(g, n, e) ==
    /\ DOMAIN g = 0..(n - 1)
    /\ \A r \in 0..(n - 1) :
          /\ DOMAIN g[r] = 0..(n - 1)
          /\ \A c \in 0..(n - 1) : g[r][c] = e

(* C6 as stated: a call with board size <= 0 or a marker that is not one
   character never returns a grid *)
C6_ConfigErrorSurfaced == (pc /= "init" /\ ~ValidConfig) => pc /= "returned"

(* C6 as amended: the constructor raises for such a configuration, so that no
   board is built and no word is laid out, and create_scrabble_layout catches
   the error and returns a board_size x board_size grid of the given marker *)
C6_ConfigErrorCaughtByWrapper ==
    (pc /= "init" /\ ~ValidConfig) =>
        /\ pc \in {"except", "returned"}
        /\ board = << >>
        /\ placed_words_info = << >>
        /\ processed = << >>
        /\ pc = "returned" => IsGridOf(result, board_size, empty_char)

(* a grid of a two-character marker has been returned *)
C6_Witness ==
    /\ pc = "returned"
    /\ board_size > 0
    /\ Len(empty_char) = 2
    /\ result /= << >>

(* C7: when every word of the normalized input is longer than the board, the
   call returns the all-empty grid and the placement log is empty *)
C7_UnseedableGivesEmptyGrid ==
    (/\ pc = "returned"
     /\ ValidConfig
     /\ \A i \in DOMAIN Normalize(words) : Len(Normalize(words)[i]) > board_size)
    => /\ IsGridOf(result, board_size, empty_char)
       /\ placed_words_info = << >>

(* two words, both too long for the board, have been tried and the grid
   returned *)
C7_Witness ==
    /\ pc = "returned"
    /\ ValidConfig
    /\ Len(Normalize(words)) >= 2
    /\ \A i \in DOMAIN Normalize(words) : Len(Normalize(words)[i]) > board_size
    /\ depth >= 1

(* no start cell and direction is accepted with a connection *)
NoAcceptedCandidate(b, word) ==
    \A r0 \in 0..(board_size - 1) : \A c0 \in 0..(board_size - 1) :
        \A d \in {"H", "V"} :
            CanPlaceWordAt(b, board_size, empty_char, word, r0, c0, d, FALSE)
                /= << TRUE, TRUE >>

AA == << "A", "A" >>

BB == << "B", "B" >>

(* C8: a later word with no accepted candidate leaves the board and the log as
   they were and is reported; for the words AA, BB (no common letter) the
   final grid holds AA alone *)
C8_FailedWordLeavesBoard ==
    /\ [][(/\ pc = "placing"
           /\ idx <= Len(current_words)
           /\ NoAcceptedCandidate(board, current_words[idx]))
          => /\ board' = board
             /\ placed_words_info' = placed_words_info
             /\ reported' = Append(reported, current_words[idx])]_vars
    /\ []((/\ pc = "returned"
           /\ ValidConfig
           /\ board_size >= 2
           /\ Normalize(words) = << AA, BB >>)
          => /\ Len(placed_words_info) = 1
             /\ placed_words_info[1].word = AA
             /\ reported = << BB >>
             /\ \A x \in Cells :
                   result[x[1]][x[2]] = "A" <=> x \in Span(placed_words_info[1])
             /\ \A x \in Cells : result[x[1]][x[2]] \in {"A", empty_char})

(* a word has failed after two words were placed, and the grid was returned *)
C8_Witness ==
    /\ pc = "returned"
    /\ Len(placed_words_info) >= 2
    /\ reported /= << >>
    /\ reported[Len(reported)] = processed[Len(processed)]

RECURSIVE Accounted(_, _, _)
(* the words p, in order, are each the next logged word or the next reported *)
Accounted(p, l, u) ==
    IF p = << >> THEN l = << >> /\ u = << >>
    ELSE \/ (l /= << >> /\ Head(l) = Head(p) /\ Accounted(Tail(p), Tail(l), u))
         \/ (u /= << >> /\ Head(u) = Head(p) /\ Accounted(Tail(p), l, Tail(u)))

LoggedWords == [k \in Entries |-> placed_words_info[k].word]

(* C9: every layout call returns; at the return every normalized input word has
   been handed to a search exactly once, in input order, and is in the log or
   reported; a failed word does not end the loop; each restart shortens the
   queue, so that there are at most as many restarts as input words *)
C9_TerminatesAllWordsProcessed ==
    /\ (pc = "layout") ~> (pc = "returned")
    /\ []((pc = "returned" /\ ValidConfig)
          => /\ processed = Normalize(words)
             /\ Accounted(processed, LoggedWords, reported)
             /\ depth <= Len(words))
    /\ [][(pc = "placing" /\ reported' /= reported)
          => (pc' = "placing" /\ idx' = idx + 1)]_vars
    /\ [][depth' > depth => Len(current_words') < Len(current_words)]_vars

(* a call has returned after a word failed in the loop and a later one was
   placed *)
C9_Witness ==
    /\ pc = "returned"
    /\ Len(processed) >= 3
    /\ reported /= << >>
    /\ Len(placed_words_info) >= 2
    /\ placed_words_info[Len(placed_words_info)].word = processed[Len(processed)]

DropEmpty(ws) == SelectSeq(ws, LAMBDA w : w /= << >>)

(* C10: no empty string reaches the queue, a search or the log; the returned
   grid and the log are those of the input without its empty strings; for
   "", "aB" the word AB is seeded without a restart and is the only entry; an
   input that normalizes to nothing returns the empty board *)
C10_EmptyStringsDropped ==
    /\ \A i \in DOMAIN current_words : current_words[i] /= << >>
    /\ \A i \in DOMAIN processed : processed[i] /= << >>
    /\ \A k \in Entries : placed_words_info[k].word /= << >>
    /\ (pc = "returned" /\ ValidConfig) =>
          /\ \E f \in {LayoutResult(board_size, empty_char, DropEmpty(words))} :
                 result = f.board /\ placed_words_info = f.log
          /\ words = << << >>, << "a", "B" >> >> /\ board_size >= 2 =>
                 /\ Len(placed_words_info) = 1
                 /\ placed_words_info[1].word = << "A", "B" >>
                 /\ depth = 0
          /\ Normalize(words) = << >> =>
                 /\ IsGridOf(result, board_size, empty_char)
                 /\ placed_words_info = << >>

(* a call whose input held an empty string between two words has returned with
   both words placed *)
C10_Witness ==
    /\ pc = "returned"
    /\ Len(words) = 3
    /\ words[2] = << >>
    /\ Len(placed_words_info) = 2

(* C11: for the words CAT, CAR on a board of size 5 with marker ".", CAT is
   seeded along row 2 in columns 1 to 3, CAR is placed so that the two spans
   share exactly one cell, which holds C or A, and the returned grid reads
   both words along their spans and is empty elsewhere *)
C11_CatCarScenario ==
    (/\ pc = "returned"
     /\ board_size = 5
     /\ empty_char = "."
     /\ words = << CAT, CAR >>)
    => /\ Len(placed_words_info) = 2
       /\ placed_words_info[1] = [word |-> CAT, row |-> 2, col |-> 1, direction |-> "H"]
       /\ placed_words_info[2].word = CAR
       /\ \E x \in Cells :
             /\ Span(placed_words_info[1]) \cap Span(placed_words_info[2]) = {x}
             /\ result[x[1]][x[2]] \in {"C", "A"}
       /\ \A k \in Entries : \A x \in Span(placed_words_info[k]) :
             x \in Cells /\ result[x[1]][x[2]] = CharAt(placed_words_info[k], x)
       /\ \A x \in Cells :
             (\A k \in Entries : x \notin Span(placed_words_info[k]))
                 => result[x[1]][x[2]] = "."
       /\ reported = << >>

(* the layout of CAT, CAR on the board of size 5 has returned with CAR logged *)
C11_Witness ==
    /\ pc = "returned"
    /\ board_size = 5
    /\ empty_char = "."
    /\ words = << CAT, CAR >>
    /\ Len(placed_words_info) = 2
    /\ placed_words_info[2].word = CAR

(* the validator rejects the word as a first word at each of the four anchors *)
FailsAllSeedAnchors(b, word) ==
    \A k \in 1..4 :
        ~CanPlaceWordAt(b, board_size, empty_char, word,
                        SeedAnchors(board_size, word)[k][1],
                        SeedAnchors(board_size, word)[k][2],
                        SeedAnchors(board_size, word)[k][3], TRUE)[1]

(* C12: when the first word of the queue fails the four seed anchors and more
   words remain, the step leaves an all-empty board, an empty log and the
   queue's tail, and seeding starts again; a word dropped that way is never in
   the log; and the returned grid and log are those of a fresh layout call on
   the tail of the normalized input *)
C12_SeedingRestart ==
    /\ [][(/\ pc = "seeding"
           /\ FailsAllSeedAnchors(board, current_words[1])
           /\ Len(current_words) > 1)
          => /\ IsGridOf(board', board_size, empty_char)
             /\ placed_words_info' = << >>
             /\ current_words' = Tail(current_words)
             /\ pc' = "seeding"
             /\ reported' = Append(reported, current_words[1])]_vars
    /\ [](\A i \in 1..depth : \A k \in Entries :
              placed_words_info[k].word /= processed[i])
    /\ []((/\ pc = "returned"
           /\ ValidConfig
           /\ Len(Normalize(words)) > 1
           /\ FailsAllSeedAnchors(EmptyBoard(board_size, empty_char),
                                  Normalize(words)[1]))
          => \E f \in {LayoutResult(board_size, empty_char, Tail(Normalize(words)))} :
                 result = f.board /\ placed_words_info = f.log)

(* a call has returned after a restart with two words of the tail placed *)
C12_Witness ==
    /\ pc = "returned"
    /\ depth >= 1
    /\ Len(placed_words_info) >= 2
    /\ Len(processed) >= 3

(* the candidates << letter index, board row, board column, direction >> of a
   word on board b: the board cell holds the letter and the validator accepts
   the start derived from it with a connection *)
Candidates(b, word) ==
    {a \in (0..(Len(word) - 1)) \X (0..(board_size - 1)) \X (0..(board_size - 1))
                \X {"H", "V"} :
        /\ b[a[2]][a[3]] = word[a[1] + 1]
        /\ CanPlaceWordAt(b, board_size, empty_char, word,
                          IF a[4] = "H" THEN a[2] ELSE a[2] - a[1],
                          IF a[4] = "H" THEN a[3] - a[1] ELSE a[3],
                          a[4], FALSE) = << TRUE, TRUE >>}

(* letter index, then row, then column, then horizontal before vertical *)
SearchOrderBefore(a, o) ==
    \/ a[1] < o[1]
    \/ a[1] = o[1] /\ a[2] < o[2]
    \/ a[1] = o[1] /\ a[2] = o[2] /\ a[3] < o[3]
    \/ a[1] = o[1] /\ a[2] = o[2] /\ a[3] = o[3] /\ a[4] = "H" /\ o[4] = "V"

(* the board that the first k entries of the log write, in order *)
RECURSIVE BoardOfLog(_)
BoardOfLog(k) ==
    IF k = 0 THEN EmptyBoard(board_size, empty_char)
    ELSE PlaceWordOnBoard(BoardOfLog(k - 1), board_size, placed_words_info[k].word,
                          placed_words_info[k].row, placed_words_info[k].col,
                          placed_words_info[k].direction)

(* C13: a step of the loop for a later word w commits at most one placement:
   none when w has no candidate, otherwise the start and direction of the
   candidate that comes first in the search order among all candidates on the
   board as it stood *)
C13_GreedySearchOrder ==
    [][(pc = "placing" /\ idx <= Len(current_words))
       => \E cs \in {Candidates(board, current_words[idx])} :
              IF cs = {}
              THEN placed_words_info' = placed_words_info /\ board' = board
              ELSE /\ Len(placed_words_info') = Len(placed_words_info) + 1
                   /\ SubSeq(placed_words_info', 1, Len(placed_words_info))
                          = placed_words_info
                   /\ \E a \in cs :
                         /\ \A o \in cs \ {a} : SearchOrderBefore(a, o)
                         /\ Committed =
                                [word |-> current_words[idx],
                                 row |-> IF a[4] = "H" THEN a[2] ELSE a[2] - a[1],
                                 col |-> IF a[4] = "H" THEN a[3] - a[1] ELSE a[3],
                                 direction |-> a[4]]]_vars

(* the last logged word was chosen among candidates of both directions at
   several anchors *)
C13_Witness ==
    /\ pc = "placing"
    /\ Len(placed_words_info) >= 2
    /\ \E k \in {Len(placed_words_info)} :
       \E cs \in {Candidates(BoardOfLog(k - 1), placed_words_info[k].word)} :
           /\ \E a \in cs : \E o \in cs : a[4] /= o[4]
           /\ \E a \in cs : \E o \in cs : << a[2], a[3] >> /= << o[2], o[3] >>
           /\ \E a \in cs : a[1] > 0

(* C14: a later word is reported unplaceable only when, on the board as it
   stood, the validator accepts the word with a connection at no start cell
   and in no direction: the candidates derived from anchors miss no placement *)
C14_SearchComplete ==
    [][(pc = "placing" /\ reported' /= reported)
       => /\ reported' = Append(reported, current_words[idx])
          /\ NoAcceptedCandidate(board, current_words[idx])]_vars

(* a later word of two letters has been reported although the board holds one
   of its letters *)
C14_Witness ==
    /\ pc = "placing"
    /\ idx > 2
    /\ reported /= << >>
    /\ reported[Len(reported)] = current_words[idx - 1]
    /\ Len(current_words[idx - 1]) >= 2
    /\ \E x \in Cells : board[x[1]][x[2]] = current_words[idx - 1][2]

(* the four anchors as the claim lists them, for a word of len letters *)
AnchorInOrder(k, len) ==
    CASE k = 1 -> << board_size \div 2, (board_size - len) \div 2, "H" >>
      [] k = 2 -> << (board_size - len) \div 2, board_size \div 2, "V" >>
      [] k = 3 -> << 0, 0, "H" >>
      [] k = 4 -> << 0, 0, "V" >>

(* the anchors at which the validator accepts the word as a first word *)
AcceptedAnchors(b, word) ==
    {k \in 1..4 :
        CanPlaceWordAt(b, board_size, empty_char, word,
                       AnchorInOrder(k, Len(word))[1], AnchorInOrder(k, Len(word))[2],
                       AnchorInOrder(k, Len(word))[3], TRUE)[1]}

(* C15: a seeding step commits exactly one placement, at the first accepted
   anchor in the order centred horizontal, centred vertical, horizontal at
   (0,0), vertical at (0,0), when the validator accepts any of them, and
   reports the word, committing nothing, only when it rejects all four *)
C15_FirstWordSearch ==
    [][pc = "seeding"
       => \E acc \in {AcceptedAnchors(board, current_words[1])} :
              IF acc = {}
              THEN /\ reported' = Append(reported, current_words[1])
                   /\ placed_words_info' = << >>
                   /\ IsGridOf(board', board_size, empty_char)
              ELSE /\ reported' = reported
                   /\ \E k \in acc :
                         /\ \A j \in acc : k <= j
                         /\ placed_words_info' =
                                << [word |-> current_words[1],
                                    row |-> AnchorInOrder(k, Len(current_words[1]))[1],
                                    col |-> AnchorInOrder(k, Len(current_words[1]))[2],
                                    direction |-> AnchorInOrder(k, Len(current_words[1]))[3]] >>
                         /\ board' = PlaceWordOnBoard(board, board_size,
                                         current_words[1],
                                         AnchorInOrder(k, Len(current_words[1]))[1],
                                         AnchorInOrder(k, Len(current_words[1]))[2],
                                         AnchorInOrder(k, Len(current_words[1]))[3])]_vars

(* a word of two letters has been seeded on a board where the centred anchors
   differ from the corner *)
C15_Witness ==
    /\ pc = "placing"
    /\ idx = 2
    /\ board_size >= 3
    /\ Len(placed_words_info) = 1
    /\ Len(placed_words_info[1].word) >= 2
    /\ placed_words_info[1].row > 0

(* the cells of the span of the call's word *)
CallSpan ==
    {CellAt(call.row, call.col, call.direction, i) : i \in 0..(Len(call.word) - 1)}

(* C16 as stated: whenever the validator accepts a word as a first word, every
   cell of the word's span was empty before the call and the connection flag
   returned is false *)
C16_FirstWordOnEmptyCells ==
    (pc = "validated" /\ call.first /\ call.returned[1])
    => /\ \A x \in CallSpan : ~Occupied(board, x)
       /\ call.returned[2] = FALSE

(* C17 as stated: any two distinct entries of the placement log whose spans
   share a cell have different directions, one horizontal and one vertical *)
C17_MeetOnlyAtCrossings ==
    \A j \in Entries : \A k \in Entries :
        (j /= k /\ Span(placed_words_info[j]) \cap Span(placed_words_info[k]) /= {})
            => placed_words_info[j].direction /= placed_words_info[k].direction

(* C18: a call of the validator for a word whose span has a cell outside the
   grid, a negative start row or column included, is rejected, reads no cell
   and leaves the board and the log as they were; every entry of the log lies
   inside the grid, and the grid has board_size rows of board_size cells *)
C18_Bounds ==
    /\ []((pc = "validated" /\ ~(CallSpan \subseteq Cells))
          => call.returned = << FALSE, FALSE >> /\ call.read = {})
    /\ [][pc = "validator"
          => board' = board /\ placed_words_info' = placed_words_info]_vars
    /\ [](\A k \in Entries : Span(placed_words_info[k]) \subseteq Cells)
    /\ [](/\ DOMAIN board = 0..(board_size - 1)
          /\ \A r \in DOMAIN board : DOMAIN board[r] = 0..(board_size - 1))

(* the validator has rejected a word of two letters that starts one row above
   the grid and whose second letter falls on an equal letter of the board;
   another entry of the log was placed from a hook at its second letter *)
C18_Witness ==
    /\ pc = "validated"
    /\ call.row = -1
    /\ call.direction = "V"
    /\ ~call.first
    /\ Len(call.word) = 2
    /\ call.col \in 0..(board_size - 1)
    /\ board[0][call.col] = call.word[2]
    /\ call.returned = << FALSE, FALSE >>
    /\ Len(placed_words_info) >= 2

(* C19: seeding always starts on an all-empty board; there the validator
   accepts some anchor exactly when the word is no longer than the board, and
   then it accepts the first anchor, so that the seed is logged along row
   size/2 from column (size - len)/2 and no other anchor places it *)
C19_SeedByFirstAnchorOnly ==
    /\ [](pc = "seeding"
          => /\ IsGridOf(board, board_size, empty_char)
             /\ placed_words_info = << >>
             /\ AcceptedAnchors(board, current_words[1]) /= {}
                    <=> Len(current_words[1]) <= board_size
             /\ AcceptedAnchors(board, current_words[1]) /= {}
                    => 1 \in AcceptedAnchors(board, current_words[1]))
    /\ [][pc = "seeding"
          => /\ Len(placed_words_info') = 1 <=> Len(current_words[1]) <= board_size
             /\ Len(placed_words_info') = 1
                    => placed_words_info'[1] =
                           [word |-> current_words[1],
                            row |-> board_size \div 2,
                            col |-> (board_size - Len(current_words[1])) \div 2,
                            direction |-> "H"]]_vars

(* a word as long as the board of size 2 has been seeded in row 1, not in the
   corner *)
C19_Witness ==
    /\ pc = "placing"
    /\ idx = 2
    /\ board_size = 2
    /\ placed_words_info =
           << [word |-> current_words[1], row |-> 1, col |-> 0, direction |-> "H"] >>
    /\ Len(current_words[1]) = 2

OccupiedCells == {x \in Cells : Occupied(board, x)}

RECURSIVE Region(_, _, _)
(* the cells of occ reached from the cells S by steps up, down, left and
   right over cells of occ; F holds the cells reached last *)
Region(occ, S, F) ==
    IF F = {} THEN S
    ELSE Region(occ, S \cup F,
                {y \in occ \ (S \cup F) : \E x \in F : y \in OrthogonalNeighbours(x)})

(* C20: in every state of a layout call the occupied cells of the board are
   none, or all of them are reached from any one of them by steps up, down,
   left and right over occupied cells *)
C20_SingleRegion ==
    Constructed =>
        \E occ \in {OccupiedCells} :
            occ = {} \/ Region(occ, {}, {CHOOSE x \in occ : TRUE}) = occ

(* three words lie on the board and occupy cells of two rows and two columns *)
C20_Witness ==
    /\ Constructed
    /\ Len(placed_words_info) >= 3
    /\ Cardinality(OccupiedCells) >= 3
    /\ \E x \in OccupiedCells : \E y \in OccupiedCells : x[1] /= y[1]
    /\ \E x \in OccupiedCells : \E y \in OccupiedCells : x[2] /= y[2]

=============================================================================
